---- MODULE Spec2Model ----
(***************************************************************************)
(* A model of chadtree's tree renderer (view/render.py) and of the cut /   *)
(* copy transition (_transitions/cut_copy.py).                             *)
(*                                                                         *)
(* Strings are sequences of characters; a character is a one-element token *)
(* ("a", ".", "/") or the name of a glyph ("U+2713").  Ord gives each its  *)
(* code point, from which the collation key (strxfrm) and the UTF-8        *)
(* encoding (str.encode) are computed.                                     *)
(*                                                                         *)
(* The tree is an arena: nodes[i] is a Node record, nodes[1] is the root,  *)
(* and a node's children mapping is the sequence of ids whose parent it    *)
(* is, in id order (the dict's enumeration order).                         *)
(***************************************************************************)
EXTENDS Integers, Sequences, FiniteSets, TLC

VARIABLES
    \* ---- render(): its arguments
    nodes,           \* the tree snapshot (arena of Node records)
    settings,        \* Settings: view.sort_by, ignores, icons, highlights, ...
    index,           \* Index: set of open folder paths
    selection,       \* Selection: set of selected paths
    filter_pattern,  \* Optional[FilterPattern]
    qf,              \* QuickFix.locations: path -> count
    vc,              \* VCStatus: ignored (set of paths), status (path -> code)
    show_hidden,     \* bool
    current,         \* Optional[str]
    \* ---- render(): its outcome
    derived,         \* None before the call; a Derived or a raised error after
    \* ---- _paint().show(node, depth): one call and its outcome
    painted,         \* None before; [node, depth, render] after
    \* ---- _operation(): the cut/copy transition
    op               \* the position and the locals of one _operation call

vars == <<nodes, settings, index, selection, filter_pattern, qf, vc,
          show_hidden, current, derived, painted, op>>

renderArgs == <<nodes, settings, index, selection, filter_pattern, qf, vc,
                show_hidden, current>>

-----------------------------------------------------------------------------
(* Bounds of the model *)

\* the largest number of nodes of a tree snapshot
MaxNodes == 4

\* the deepest depth a single line is painted at
MaxDepth == 2

\* the largest number of answers the user gives to path-exists prompts
MaxPrompts == 3

-----------------------------------------------------------------------------
(* Python values *)

\* Python's None
None == [none |-> TRUE]

\* dict.get(key): None when the key is absent
Get(d, k) == IF k \in DOMAIN d THEN d[k] ELSE None

\* the empty dict
EmptyDict == [k \in {} |-> None]

\* "".join(parts) of a sequence of strings
RECURSIVE Join(_)
Join(parts) ==
    IF parts = <<>> THEN <<>> ELSE Head(parts) \o Join(Tail(parts))

\* n * " "  (a negative count gives the empty string)
RECURSIVE Spaces(_)
Spaces(n) == IF n <= 0 THEN <<>> ELSE <<" ">> \o Spaces(n - 1)

\* os.linesep and os.path.sep
linesep == "LF"
sep == "/"

\* the code point of each character the model uses
Ord ==
    [c \in {"LF", " ", "*", "-", ".", "/", "?", "A", "B", "\\", "a", "b", "c",
            "n", "r", "t", "x", "U+00E9", "U+2713", "U+1F4C1"} |->
        CASE c = "LF" -> 10
          [] c = " " -> 32
          [] c = "*" -> 42
          [] c = "-" -> 45
          [] c = "." -> 46
          [] c = "/" -> 47
          [] c = "?" -> 63
          [] c = "A" -> 65
          [] c = "B" -> 66
          [] c = "\\" -> 92
          [] c = "a" -> 97
          [] c = "b" -> 98
          [] c = "c" -> 99
          [] c = "n" -> 110
          [] c = "r" -> 114
          [] c = "t" -> 116
          [] c = "x" -> 120
          [] c = "U+00E9" -> 233
          [] c = "U+2713" -> 10003
          [] c = "U+1F4C1" -> 128193]

\* the UTF-8 bytes of one code point
Utf8(cp) ==
    IF cp < 128 THEN <<cp>>
    ELSE IF cp < 2048 THEN <<192 + (cp \div 64), 128 + (cp % 64)>>
    ELSE IF cp < 65536 THEN
        <<224 + (cp \div 4096), 128 + ((cp \div 64) % 64), 128 + (cp % 64)>>
    ELSE
        <<240 + (cp \div 262144), 128 + ((cp \div 4096) % 64),
          128 + ((cp \div 64) % 64), 128 + (cp % 64)>>

\* str.encode(): the UTF-8 bytes of a string
RECURSIVE encode(_)
encode(s) == IF s = <<>> THEN <<>> ELSE Utf8(Ord[Head(s)]) \o encode(Tail(s))

\* locale.strxfrm(s): the collation key of s; keys compare as the strings
\* collate (code point order, the C locale)
strxfrm(s) == [i \in DOMAIN s |-> Ord[s[i]]]

\* fnmatch.fnmatch(name, pattern): "*" matches any run of characters (a path
\* separator included), "?" any one character, anything else itself
RECURSIVE fnmatch(_, _)
fnmatch(name, pattern) ==
    IF pattern = <<>> THEN name = <<>>
    ELSE IF Head(pattern) = "*" THEN
        \/ fnmatch(name, Tail(pattern))
        \/ name # <<>> /\ fnmatch(Tail(name), pattern)
    ELSE IF Head(pattern) = "?" THEN
        name # <<>> /\ fnmatch(Tail(name), Tail(pattern))
    ELSE
        /\ name # <<>>
        /\ Head(name) = Head(pattern)
        /\ fnmatch(Tail(name), Tail(pattern))

\* str.replace(old, new) for a one-character old
RECURSIVE replace(_, _, _)
replace(s, old, new) ==
    IF s = <<>> THEN <<>>
    ELSE (IF Head(s) = old THEN new ELSE <<Head(s)>>) \o replace(Tail(s), old, new)

-----------------------------------------------------------------------------
(* The tree snapshot: fs.types.Node *)

\* the ids of the arena
Ids == DOMAIN nodes

\* the root node render() is called with
root == nodes[1]

\* node.children.values(): the children of node n in enumeration order
RECURSIVE childrenFrom(_, _)
childrenFrom(n, i) ==
    IF i > Len(nodes) THEN <<>>
    ELSE (IF nodes[i].parent = n THEN <<i>> ELSE <<>>) \o childrenFrom(n, i + 1)

children(n) == childrenFrom(n, 1)

\* Mode tags in the order sorted(node.mode) gives them
ModeOrder == <<"orphan_link", "link", "folder">>

s_modes(node) == SelectSeq(ModeOrder, LAMBDA m : m \in node.mode)

-----------------------------------------------------------------------------
(* Comparator: _gen_comp *)

\* class _CompVals(IntEnum)
FOLDER == 1
FILE == 2

\* enum Sortby
Sortby == {"is_folder", "ext", "fname"}

\* a < b for two keys (sequences of numbers): Python's ordering of str and of
\* int, an int being the one-element key
KeyLess(a, b) ==
    \E i \in 1..Len(b) :
        /\ i <= Len(a) + 1
        /\ \A j \in 1..(i - 1) : a[j] = b[j]
        /\ (i = Len(a) + 1 \/ a[i] < b[i])

\* a < b for two tuples of keys: Python's ordering of tuples
TupleLess(a, b) ==
    \E i \in 1..Len(b) :
        /\ i <= Len(a) + 1
        /\ \A j \in 1..(i - 1) : a[j] = b[j]
        /\ (i = Len(a) + 1 \/ KeyLess(a[i], b[i]))

\* one projection of comp: the value yielded for sort key sb
proj(sb, node) ==
    IF sb = "is_folder" THEN
        (IF "folder" \in node.mode THEN <<FOLDER>> ELSE <<FILE>>)
    ELSE IF sb = "ext" THEN strxfrm(node.ext)  \* the 1-tuple (strxfrm(ext),)
    ELSE strxfrm(node.name)

\* comp(node): the tuple of projections, or never(sb) raising on a key outside
\* the enumeration
comp(node) ==
    LET sortby == settings.view.sort_by IN
    IF \E i \in DOMAIN sortby : sortby[i] \notin Sortby
    THEN [raised |-> TRUE, val |-> <<>>]
    ELSE [raised |-> FALSE,
          val |-> [i \in DOMAIN sortby |-> proj(sortby[i], node)]]

\* the stable insertion of id x into the sorted sequence s: after every
\* element whose key is not greater
RECURSIVE insort(_, _)
insort(x, s) ==
    IF s = <<>> THEN <<x>>
    ELSE IF TupleLess(comp(nodes[x]).val, comp(nodes[Head(s)]).val)
         THEN <<x>> \o s
         ELSE <<Head(s)>> \o insort(x, Tail(s))

RECURSIVE sortedFrom(_, _)
sortedFrom(ids, acc) ==
    IF ids = <<>> THEN acc ELSE sortedFrom(Tail(ids), insort(Head(ids), acc))

\* a plausible slip: the children are left in enumeration order
sorted_as_enumerated(gen) ==
    IF \E i \in DOMAIN gen : comp(nodes[gen[i]]).raised
    THEN [raised |-> TRUE, val |-> <<>>]
    ELSE [raised |-> FALSE, val |-> gen]

\* sorted(gen, key=comp): a stable sort, raising when comp raises on an element
sorted(gen) ==
    IF \E i \in DOMAIN gen : comp(nodes[gen[i]]).raised
    THEN [raised |-> TRUE, val |-> <<>>]
    ELSE [raised |-> FALSE, val |-> sortedFrom(gen, <<>>)]

-----------------------------------------------------------------------------
(* Visibility filter: _ignore *)

\* a plausible slip: the path globs are not consulted
_ignore_without_path_globs(node) ==
    \/ node.path \in vc.ignored
    \/ \E pattern \in settings.ignores.name : fnmatch(node.name, pattern)

_ignore(node) ==
    \/ node.path \in vc.ignored
    \/ \E pattern \in settings.ignores.name : fnmatch(node.name, pattern)
    \/ \E pattern \in settings.ignores.path : fnmatch(node.path, pattern)

\* drop: constantly(False) when show_hidden, else _ignore(settings, vc)
drop(node) == IF show_hidden THEN FALSE ELSE _ignore(node)

-----------------------------------------------------------------------------
(* Highlight resolver and line painter: _paint *)

search_hl(node) ==
    LET context == settings.view.hl_context
        pre == SelectSeq(s_modes(node),
                         LAMBDA m : Get(context.mode_lookup_pre, m) # None)
        byext == Get(context.ext_lookup, node.ext)
        byname == SelectSeq(context.name_lookup,
                            LAMBDA kv : fnmatch(node.name, kv.pattern))
        post == SelectSeq(s_modes(node),
                          LAMBDA m : Get(context.mode_lookup_post.modes, m) # None)
    IN  IF pre # <<>> THEN context.mode_lookup_pre[Head(pre)]
        ELSE IF byext # None THEN byext
        ELSE IF byname # <<>> THEN Head(byname).group
        ELSE IF post # <<>> THEN context.mode_lookup_post.modes[Head(post)]
        ELSE context.mode_lookup_post.none

gen_spacer(depth) == Spaces(depth * 2 - 1)

gen_status(path) ==
    LET icons == settings.view.icons
        selected == IF path \in selection THEN icons.status.selected ELSE <<" ">>
        active == IF path = current THEN icons.status.active ELSE <<" ">>
    IN  selected \o active

gen_decor_pre(node, depth) == Join(<<gen_spacer(depth), gen_status(node.path)>>)

gen_icon(node) ==
    LET icons == settings.view.icons
        exact == IF node.name \in DOMAIN icons.name_exact
                 THEN icons.name_exact[node.name] ELSE <<>>
        type == IF node.ext \in DOMAIN icons.type
                THEN icons.type[node.ext] ELSE <<>>
        glob == SelectSeq(icons.name_glob,
                          LAMBDA kv : fnmatch(node.name, kv.pattern))
        glyph ==
            IF "folder" \in node.mode THEN
                (IF node.path \in index
                 THEN icons.folder.open ELSE icons.folder.closed)
            ELSE IF settings.view.use_icons THEN
                (IF exact # <<>> THEN exact
                 ELSE IF type # <<>> THEN type
                 ELSE IF glob # <<>> THEN Head(glob).glyph
                 ELSE icons.default_icon)
            ELSE icons.default_icon
    IN  Join(<<<<" ">>, glyph, <<" ">>>>)

gen_name(node) ==
    Join(<<replace(node.name, linesep, <<"\\", "n">>),
           IF ~settings.view.use_icons /\ "folder" \in node.mode
           THEN <<sep>> ELSE <<>>>>)

gen_decor_post(node) ==
    LET icons == settings.view.icons IN
    IF "orphan_link" \in node.mode THEN <<" ">> \o icons.link.broken
    ELSE IF "link" \in node.mode THEN <<" ">> \o icons.link.normal
    ELSE <<>>

gen_badges(path) ==
    LET groups == settings.view.highlights.groups
        qf_count == IF path \in DOMAIN qf THEN qf[path] ELSE 0
    IN  (IF qf_count # 0
         THEN <<[text |-> <<"(", qf_count, ")">>, group |-> groups.quickfix]>>
         ELSE <<>>)
        \o
        (IF path \in DOMAIN vc.status
         THEN <<[text |-> <<"[", vc.status[path], "]">>,
                 group |-> groups.version_control]>>
         ELSE <<>>)

\* a plausible slip: the offsets count characters, not encoded bytes
gen_highlights_by_characters(node, pre, icon, name) ==
    LET begin1 == Len(pre)
        end1 == begin1 + Len(icon)
        group1 == Get(settings.view.highlights.exts, node.ext)
        group2 == search_hl(node)
        begin2 == end1
        end2 == Len(name) + begin2
    IN  (IF group1 # None
         THEN <<[group |-> group1.name, begin |-> begin1, end |-> end1]>>
         ELSE <<>>)
        \o
        (IF group2 # None
         THEN <<[group |-> group2.name, begin |-> begin2, end |-> end2]>>
         ELSE <<>>)

gen_highlights(node, pre, icon, name) ==
    LET begin1 == Len(encode(pre))
        end1 == begin1 + Len(encode(icon))
        group1 == Get(settings.view.highlights.exts, node.ext)
        group2 == search_hl(node)
        begin2 == end1
        end2 == Len(encode(name)) + begin2
    IN  (IF group1 # None
         THEN <<[group |-> group1.name, begin |-> begin1, end |-> end1]>>
         ELSE <<>>)
        \o
        (IF group2 # None
         THEN <<[group |-> group2.name, begin |-> begin2, end |-> end2]>>
         ELSE <<>>)

show(node, depth) ==
    LET pre == gen_decor_pre(node, depth)
        icon == gen_icon(node)
        name == gen_name(node)
        post == gen_decor_post(node)
    IN  [line |-> Join(<<pre, icon, name, post>>),
         badges |-> gen_badges(node.path),
         highlights |-> gen_highlights(node, pre, icon, name)]

-----------------------------------------------------------------------------
(* Tree flattener: render *)

\* a plausible slip: nothing is kept open
keep_open_nothing == {}

\* keep_open = {node.path}, node being the root
keep_open == {root.path}

\* a plausible slip: the parent's clear flag is not inherited
clear_not_inherited(cleared, node) ==
    \/ filter_pattern = None
    \/ fnmatch(node.name, filter_pattern.pattern)

\* clear = cleared or not filter_pattern or fnmatch(node.name, pattern)
clear(cleared, node) ==
    \/ cleared
    \/ filter_pattern = None
    \/ fnmatch(node.name, filter_pattern.pattern)

\* gen: the children of node n that drop does not hide
gen(n) == SelectSeq(children(n), LAMBDA child : ~drop(nodes[child]))

\* a plausible slip: the lines of the children do not count
shown_without_children(clr, lines, node) ==
    clr \/ node.path \in keep_open

\* the condition under which a node's own line is yielded
shown(clr, lines, node) ==
    clr \/ lines # <<>> \/ node.path \in keep_open

\* a plausible slip: the node's own line is yielded after its children's
yielded_after_children(n, rend, clr, lines) ==
    lines \o (IF clr \/ lines # <<>> \/ nodes[n].path \in {root.path}
              THEN <<[node |-> n, rend |-> rend]>> ELSE <<>>)

\* what one call of the inner render yields: the node's own line, if shown,
\* then the lines of its children
yielded(n, rend, clr, lines) ==
    (IF shown(clr, lines, nodes[n])
     THEN <<[node |-> n, rend |-> rend]>> ELSE <<>>) \o lines

\* the inner render(node, depth, cleared): the lines of the subtree of n, or
\* the error raised on the way
RECURSIVE render_node(_, _, _)
render_node(n, depth, cleared) ==
    LET clr == clear(cleared, nodes[n])
        rend == show(nodes[n], depth)
        srt == sorted(gen(n))
        subs == [i \in DOMAIN srt.val |->
                    render_node(srt.val[i], depth + 1, clr)]
    IN  IF srt.raised \/ \E i \in DOMAIN subs : subs[i].raised
        THEN [raised |-> TRUE, lines |-> <<>>]
        ELSE [raised |-> FALSE,
              lines |-> yielded(n, rend, clr,
                                Join([i \in DOMAIN subs |-> subs[i].lines]))]

\* a plausible slip: the enumeration counts from 1
enumerate_paths_from_one(lookup) ==
    [path \in {nodes[lookup[i]].path : i \in DOMAIN lookup} |->
        CHOOSE i \in DOMAIN lookup :
            /\ nodes[lookup[i]].path = path
            /\ \A j \in DOMAIN lookup : nodes[lookup[j]].path = path => j <= i]

\* {node.path: idx for idx, node in enumerate(lookup)}: the last index wins
enumerate_paths(lookup) ==
    [path \in {nodes[lookup[i]].path : i \in DOMAIN lookup} |->
        (CHOOSE i \in DOMAIN lookup :
            /\ nodes[lookup[i]].path = path
            /\ \A j \in DOMAIN lookup : nodes[lookup[j]].path = path => j <= i)
        - 1]

\* the error a raising render leaves instead of a Derived
Raised(error) ==
    [raised |-> TRUE, error |-> error,
     lookup |-> <<>>, paths_lookup |-> EmptyDict, rendered |-> <<>>]

\* zip(*lines) and the Derived built of it; unpacking no lines raises
unzip(lines) ==
    IF lines = <<>> THEN Raised("ValueError")
    ELSE LET lookup == [i \in DOMAIN lines |-> lines[i].node] IN
         [raised |-> FALSE, error |-> "",
          lookup |-> lookup,
          paths_lookup |-> enumerate_paths(lookup),
          rendered |-> [i \in DOMAIN lines |-> lines[i].rend]]

\* render(node, settings=..., ...): the Derived, or the error raised
render ==
    LET walk == render_node(1, 0, FALSE) IN
    IF walk.raised THEN Raised("never") ELSE unzip(walk.lines)

-----------------------------------------------------------------------------
(* The arguments render is called with *)

\* the root of every snapshot
RootNode ==
    [path |-> <<"/", "r">>, name |-> <<"r">>, ext |-> <<>>,
     mode |-> {"folder"}, parent |-> 0]

\* what the nodes below the root are drawn from: two folders and two files
Kinds ==
    { [name |-> <<"A">>, ext |-> <<>>, mode |-> {"folder"}],
      [name |-> <<"B">>, ext |-> <<>>, mode |-> {"folder", "link"}],
      [name |-> <<"b", ".", "t">>, ext |-> <<".", "t">>, mode |-> {}],
      [name |-> <<"c">>, ext |-> <<>>, mode |-> {}] }

\* os.path.join(parent path, name) down from the root
RECURSIVE PathOf(_, _, _)
PathOf(par, kind, i) ==
    IF i = 1 THEN RootNode.path
    ELSE PathOf(par, kind, par[i]) \o <<sep>> \o kind[i].name

\* a snapshot is a tree: a parent comes before its children, only folders
\* have children, and the children of one folder have different names
WellFormed(n, par, kind) ==
    /\ \A i \in 2..n : par[i] < i
    /\ \A i \in 2..n : par[i] = 1 \/ "folder" \in kind[par[i]].mode
    /\ \A i, j \in 2..n :
         (i # j /\ par[i] = par[j]) => kind[i].name # kind[j].name

Snapshot(n, par, kind) ==
    [i \in 1..n |->
        IF i = 1 THEN RootNode
        ELSE [path |-> PathOf(par, kind, i), name |-> kind[i].name,
              ext |-> kind[i].ext, mode |-> kind[i].mode, parent |-> par[i]]]

\* every snapshot of at most MaxNodes nodes
Snapshots ==
    UNION { { Snapshot(n, par, kind) :
                <<par, kind>> \in
                    { pk \in [2..n -> 1..n] \X [2..n -> Kinds] :
                        WellFormed(n, pk[1], pk[2]) } } :
            n \in 1..MaxNodes }

\* settings.view.sort_by
SortByOptions ==
    { <<>>, <<"is_folder">>, <<"is_folder", "fname">>, <<"ext", "fname">>,
      <<"fname", "size">> }

\* settings.ignores.name, settings.ignores.path and vc.ignored
IgnoreOptions ==
    { [name |-> {}, path |-> {}, ignored |-> {}],
      [name |-> {<<"b", "*">>}, path |-> {}, ignored |-> {}],
      [name |-> {}, path |-> {<<"*", "/", "A", "/", "*">>}, ignored |-> {}],
      [name |-> {}, path |-> {},
       ignored |-> {<<"/", "r">>, <<"/", "r", "/", "B">>}] }

FilterOptions ==
    { None, [pattern |-> <<"*", ".", "t">>], [pattern |-> <<"A">>] }

\* two icon sets: one of ASCII glyphs, one of multi-byte glyphs
AsciiIcons ==
    [status |-> [selected |-> <<"x">>, active |-> <<"*">>],
     folder |-> [open |-> <<"-">>, closed |-> <<"x">>],
     link |-> [normal |-> <<"?">>, broken |-> <<"x">>],
     name_exact |-> EmptyDict, type |-> EmptyDict, name_glob |-> <<>>,
     default_icon |-> <<"a">>]

GlyphIcons ==
    [status |-> [selected |-> <<"U+2713">>, active |-> <<"U+00E9">>],
     folder |-> [open |-> <<"U+1F4C1">>, closed |-> <<"U+1F4C1", "U+00E9">>],
     link |-> [normal |-> <<"U+2713">>, broken |-> <<"U+00E9", "x">>],
     name_exact |-> (<<"c">> :> <<"U+2713">>),
     type |-> (<<".", "t">> :> <<"U+00E9">>),
     name_glob |-> << [pattern |-> <<"*">>, glyph |-> <<"U+1F4C1">>] >>,
     default_icon |-> <<>>]

\* settings.view.highlights.exts and settings.view.hl_context
NoContext ==
    [mode_lookup_pre |-> EmptyDict,
     mode_lookup_post |-> [modes |-> EmptyDict, none |-> None],
     ext_lookup |-> EmptyDict, name_lookup |-> <<>>]

HlOptions ==
    { [exts |-> EmptyDict, context |-> NoContext],
      [exts |-> (<<".", "t">> :> [name |-> "ext_t"]), context |-> NoContext],
      [exts |-> (<<".", "t">> :> [name |-> "ext_t"]),
       context |-> [NoContext EXCEPT
                      !.mode_lookup_post.none = [name |-> "normal"]]],
      [exts |-> EmptyDict,
       context |-> [mode_lookup_pre |-> ("link" :> [name |-> "pre_link"]),
                    mode_lookup_post |->
                        [modes |-> ("folder" :> [name |-> "post_folder"]),
                         none |-> None],
                    ext_lookup |-> (<<".", "t">> :> [name |-> "by_ext"]),
                    name_lookup |->
                        << [pattern |-> <<"c", "*">>,
                            group |-> [name |-> "by_name"]] >>]] }

Settings(sort_by, ig, use_icons, icons, hl) ==
    [ignores |-> [name |-> ig.name, path |-> ig.path],
     view |-> [sort_by |-> sort_by, use_icons |-> use_icons, icons |-> icons,
               hl_context |-> hl.context,
               highlights |->
                   [exts |-> hl.exts,
                    groups |-> [quickfix |-> "qf", version_control |-> "vc"]]]]

-----------------------------------------------------------------------------
(* SpecRender: one call of render on any snapshot *)

InitRender ==
    /\ nodes \in Snapshots
    /\ \E sort_by \in SortByOptions, ig \in IgnoreOptions :
         /\ settings = Settings(sort_by, ig, TRUE, GlyphIcons,
                                CHOOSE hl \in HlOptions :
                                    hl.exts = EmptyDict /\ hl.context # NoContext)
         /\ vc = [ignored |-> ig.ignored, status |-> EmptyDict]
    /\ filter_pattern \in FilterOptions
    /\ show_hidden \in BOOLEAN
    /\ index = {RootNode.path}
    /\ selection = {}
    /\ qf = EmptyDict
    /\ current = None
    /\ derived = None
    /\ painted = None
    /\ op = None

\* the call: render runs to its end in one step
Render ==
    /\ derived = None
    /\ derived' = render
    /\ UNCHANGED <<renderArgs, painted, op>>

NextRender == Render

SpecRender == InitRender /\ [][NextRender]_vars

-----------------------------------------------------------------------------
(* What the claims about render speak of, stated over the snapshot itself *)

\* render has returned a Derived
Returned == derived # None /\ ~derived.raised

\* the proper ancestors and the proper descendants of node n
RECURSIVE Ancestors(_)
Ancestors(n) ==
    IF nodes[n].parent = 0 THEN {}
    ELSE {nodes[n].parent} \cup Ancestors(nodes[n].parent)

Descendants(n) == {d \in Ids : n \in Ancestors(d)}

Siblings(a, b) == a # b /\ nodes[a].parent = nodes[b].parent

\* the nodes of the output, and the position of one (0 when it has no line)
Output == {derived.lookup[i] : i \in DOMAIN derived.lookup}

Position(n) ==
    IF n \in Output
    THEN CHOOSE i \in DOMAIN derived.lookup : derived.lookup[i] = n
    ELSE 0

\* the hide predicate of the ignore rules
Hidden(n) ==
    \/ nodes[n].path \in vc.ignored
    \/ \E pattern \in settings.ignores.name : fnmatch(nodes[n].name, pattern)
    \/ \E pattern \in settings.ignores.path : fnmatch(nodes[n].path, pattern)

\* the walk reaches node n: nothing hides n or an ancestor of n below the root
Visited(n) ==
    show_hidden \/ \A a \in (Ancestors(n) \cup {n}) \ {1} : ~Hidden(a)

\* the name of node n matches the active filter
Matches(n) ==
    filter_pattern # None /\ fnmatch(nodes[n].name, filter_pattern.pattern)

\* node n is clear: no filter is active, or n or an ancestor of n matches it
IsClear(n) ==
    filter_pattern = None \/ \E a \in Ancestors(n) \cup {n} : Matches(a)

\* every sort key is one of the enumeration
KnownSortKeys ==
    \A i \in DOMAIN settings.view.sort_by :
        settings.view.sort_by[i] \in {"is_folder", "ext", "fname"}

-----------------------------------------------------------------------------
(* C1 *)

\* C1 as claimed: with showHidden false, no node of the output, the root
\* included, satisfies the hide predicate.
C1_NoHiddenNodeInOutput ==
    (Returned /\ ~show_hidden) => \A n \in Output : ~Hidden(n)

\* C1 as amended: with showHidden false, no node of the output other than the
\* root satisfies the hide predicate (the root is never tested against it).
C1_NoHiddenNodeBelowRootInOutput ==
    (Returned /\ ~show_hidden) => \A n \in Output \ {1} : ~Hidden(n)

\* a render that hid a node below the root and still put out other nodes
C1_Witness ==
    /\ Returned /\ ~show_hidden
    /\ \E n \in Ids \ {1} : Hidden(n) /\ ~Hidden(nodes[n].parent)
    /\ \E n \in Output : n # 1

-----------------------------------------------------------------------------
(* C2 *)

\* C2 as claimed: every ancestor of a node of the tree whose name matches the
\* active filter is in the output, whatever showHidden is.
C2_MatchPullsUpAncestors ==
    Returned =>
        \A n \in Ids : Matches(n) => \A a \in Ancestors(n) : a \in Output

\* C2 as amended: every ancestor of a node that the walk visits and whose name
\* matches the active filter is in the output.
C2_VisitedMatchPullsUpAncestors ==
    Returned =>
        \A n \in Ids :
            (Matches(n) /\ Visited(n)) => \A a \in Ancestors(n) : a \in Output

\* a visited match two levels down, under ancestors that do not match
C2_Witness ==
    /\ Returned
    /\ \E n \in Ids :
         /\ Matches(n) /\ Visited(n)
         /\ Cardinality(Ancestors(n)) >= 2
         /\ \A a \in Ancestors(n) : ~Matches(a)

-----------------------------------------------------------------------------
(* C3 *)

\* C3: render never fails for want of lines, and whenever it returns (it does
\* whenever the sort keys are known) the output is not empty and pathsLookup
\* holds the root's path.
C3_RootAlwaysRendered ==
    derived # None =>
        /\ derived.error # "ValueError"
        /\ KnownSortKeys => ~derived.raised
        /\ ~derived.raised =>
             /\ derived.lookup # <<>>
             /\ root.path \in DOMAIN derived.paths_lookup

\* a root without children rendered under a filter that matches nothing
C3_Witness ==
    /\ Returned /\ filter_pattern # None /\ ~Matches(1)
    /\ Len(nodes) = 1
    /\ derived.lookup = <<1>>

-----------------------------------------------------------------------------
(* C4 *)

\* C4 as claimed: a render whose sort-key list holds a value outside the
\* enumeration aborts, on any tree.
C4_UnknownSortKeyAborts ==
    (derived # None /\ ~KnownSortKeys) => derived.raised

-----------------------------------------------------------------------------
(* C5 *)

\* C5 as claimed: of two siblings in the output, A precedes B iff A's
\* projection tuple is less than B's.
C5_SiblingOrderIffLess ==
    (Returned /\ settings.view.sort_by # <<>>) =>
        \A a, b \in Output :
            Siblings(a, b) =>
                (Position(a) < Position(b)
                    <=> TupleLess(comp(nodes[a]).val, comp(nodes[b]).val))

\* C5 as amended: of two siblings in the output, A precedes B if A's
\* projection tuple is less than B's, and when neither tuple is less than the
\* other they stand in the order the parent enumerates its children.
C5_SiblingOrderLessThenStable ==
    Returned =>
        \A a, b \in Output :
            Siblings(a, b) =>
                LET ka == comp(nodes[a]).val
                    kb == comp(nodes[b]).val
                IN  /\ TupleLess(ka, kb) => Position(a) < Position(b)
                    /\ (~TupleLess(ka, kb) /\ ~TupleLess(kb, ka) /\ a < b)
                          => Position(a) < Position(b)

\* two siblings put out in the reverse of their enumeration order, and two
\* with equal tuples
C5_Witness ==
    /\ Returned
    /\ \E a, b \in Output :
         Siblings(a, b) /\ a < b /\ Position(b) < Position(a)
    /\ \E a, b \in Output :
         /\ Siblings(a, b)
         /\ settings.view.sort_by # <<>>
         /\ comp(nodes[a]).val = comp(nodes[b]).val

-----------------------------------------------------------------------------
(* C6 *)

\* C6: a node of the output stands before each of its descendants in the
\* output, and the lines of its subtree are one unbroken run.
C6_PreOrderContiguous ==
    Returned =>
        \A n \in Output :
            LET below == {Position(d) : d \in Descendants(n) \cap Output}
                i == Position(n)
            IN  below = (i + 1)..(i + Cardinality(below))

\* a folder below the root put out with a descendant, and a line after them
C6_Witness ==
    /\ Returned
    /\ \E n \in Output \ {1} :
         /\ Descendants(n) \cap Output # {}
         /\ \E m \in Output \ (Descendants(n) \cup {n}) :
              Position(m) > Position(n)

-----------------------------------------------------------------------------
(* C7 *)

\* C7: pathsLookup maps the path of the node at every index of lookup back to
\* that index (indices count from 0), and rendered holds, index by index, the
\* painted line of the node of lookup.
C7_LookupRoundTrip ==
    Returned =>
        /\ Len(derived.lookup) = Len(derived.rendered)
        /\ \A i \in DOMAIN derived.lookup :
             LET n == derived.lookup[i] IN
             /\ nodes[n].path \in DOMAIN derived.paths_lookup
             /\ derived.paths_lookup[nodes[n].path] = i - 1
             /\ derived.rendered[i] = show(nodes[n], Cardinality(Ancestors(n)))

\* an output of three lines or more that reaches depth two
C7_Witness ==
    /\ Returned
    /\ Len(derived.lookup) >= 3
    /\ \E n \in Output : Cardinality(Ancestors(n)) = 2

-----------------------------------------------------------------------------
(* C8 *)

\* C8: a visited node has a line iff it is clear, or a child that is not
\* hidden has a line in its subtree, or it is the root.
C8_ShownIffClearOrChildOrRoot ==
    Returned =>
        \A n \in Ids :
            Visited(n) =>
                (n \in Output <=>
                    \/ IsClear(n)
                    \/ \E c \in Ids :
                         /\ nodes[c].parent = n
                         /\ show_hidden \/ ~Hidden(c)
                         /\ (Descendants(c) \cup {c}) \cap Output # {}
                    \/ n = 1)

\* the scenario of the claim: /r with the file b.t and the empty folder A,
\* filtered by *.t, yields /r and /r/b.t
C8_Witness ==
    /\ Returned
    /\ Len(nodes) = 3
    /\ filter_pattern = [pattern |-> <<"*", ".", "t">>]
    /\ {nodes[n].path : n \in Ids} =
         {<<"/", "r">>, <<"/", "r", "/", "A">>, <<"/", "r", "/", "b", ".", "t">>}
    /\ [i \in DOMAIN derived.lookup |-> nodes[derived.lookup[i]].path] =
         << <<"/", "r">>, <<"/", "r", "/", "b", ".", "t">> >>

-----------------------------------------------------------------------------
(* SpecPaint: one line painted for one node, at any depth *)

\* the nodes a line is painted for: a folder, a file with an extension, a
\* file whose name holds a two-byte character and a line break, a link to a
\* folder, and a broken link
PaintNodes ==
    { RootNode,
      [path |-> <<"/", "r", "/", "b", ".", "t">>, name |-> <<"b", ".", "t">>,
       ext |-> <<".", "t">>, mode |-> {}, parent |-> 0],
      [path |-> <<"/", "r", "/", "U+00E9", "LF", "a">>,
       name |-> <<"U+00E9", "LF", "a">>, ext |-> <<>>, mode |-> {},
       parent |-> 0],
      [path |-> <<"/", "r", "/", "B">>, name |-> <<"B">>, ext |-> <<>>,
       mode |-> {"folder", "link"}, parent |-> 0],
      [path |-> <<"/", "r", "/", "c">>, name |-> <<"c">>, ext |-> <<>>,
       mode |-> {"orphan_link", "link"}, parent |-> 0] }

InitPaint ==
    /\ \E node \in PaintNodes :
         /\ nodes = <<node>>
         /\ index \in {{}, {node.path}}
         /\ selection \in {{}, {node.path}}
         /\ current \in {None, node.path}
         /\ \E marked \in BOOLEAN :
              /\ qf = IF marked THEN (node.path :> 3) ELSE EmptyDict
              /\ vc = [ignored |-> {},
                       status |-> IF marked THEN (node.path :> "M")
                                  ELSE EmptyDict]
    /\ \E use_icons \in BOOLEAN, icons \in {AsciiIcons, GlyphIcons},
          hl \in HlOptions :
         settings = Settings(<<"is_folder", "fname">>,
                             [name |-> {}, path |-> {}], use_icons, icons, hl)
    /\ filter_pattern = None
    /\ show_hidden = TRUE
    /\ derived = None
    /\ painted = None
    /\ op = None

\* show(node, depth), the parts of the line kept beside the Render
Paint(depth) ==
    /\ painted = None
    /\ painted' = [depth |-> depth,
                   pre |-> gen_decor_pre(nodes[1], depth),
                   icon |-> gen_icon(nodes[1]),
                   name |-> gen_name(nodes[1]),
                   render |-> show(nodes[1], depth)]
    /\ UNCHANGED <<renderArgs, derived, op>>

NextPaint == \E depth \in 0..MaxDepth : Paint(depth)

SpecPaint == InitPaint /\ [][NextPaint]_vars

-----------------------------------------------------------------------------
(* C9 *)

\* byte offset k of the encoded line ends a whole-character prefix of it
OnCharacterBoundary(line, k) ==
    \E c \in 0..Len(line) : k = Len(encode(SubSeq(line, 1, c)))

\* the bytes [begin, end) of the encoded line
Bytes(line, begin, end) == SubSeq(encode(line), begin + 1, end)

\* C9: every highlight span lies within the encoded line, on whole-character
\* boundaries; the icon-region span, when emitted, covers exactly the bytes
\* of the icon after the bytes of the prefix, and the name-region span, when
\* emitted, covers exactly the bytes of the name right after the icon region,
\* whether or not the icon-region span is emitted.
C9_HighlightsAreByteOffsets ==
    painted # None =>
        LET line == painted.render.line
            spans == painted.render.highlights
            by_ext == Get(settings.view.highlights.exts, nodes[1].ext)
            by_tier == search_hl(nodes[1])
            icon_from == Len(encode(painted.pre))
            name_from == icon_from + Len(encode(painted.icon))
        IN  /\ line = painted.pre \o painted.icon \o painted.name
                        \o gen_decor_post(nodes[1])
            /\ Len(spans) = (IF by_ext # None THEN 1 ELSE 0)
                            + (IF by_tier # None THEN 1 ELSE 0)
            /\ \A i \in DOMAIN spans :
                 /\ 0 <= spans[i].begin
                 /\ spans[i].begin <= spans[i].end
                 /\ spans[i].end <= Len(encode(line))
                 /\ OnCharacterBoundary(line, spans[i].begin)
                 /\ OnCharacterBoundary(line, spans[i].end)
            /\ by_ext # None =>
                 /\ spans[1].begin = icon_from
                 /\ spans[1].end = name_from
                 /\ Bytes(line, spans[1].begin, spans[1].end)
                      = encode(painted.icon)
            /\ by_tier # None =>
                 LET span == spans[Len(spans)] IN
                 /\ span.begin = name_from
                 /\ span.end - span.begin = Len(encode(painted.name))
                 /\ Bytes(line, span.begin, span.end) = encode(painted.name)

\* a line with multi-byte glyphs in its prefix, its icon and its name, painted
\* with a name-region span and no icon-region span
C9_Witness ==
    /\ painted # None
    /\ Len(encode(painted.pre)) > Len(painted.pre)
    /\ Len(encode(painted.icon)) > Len(painted.icon)
    /\ Len(encode(painted.name)) > Len(painted.name)
    /\ Len(painted.render.highlights) = 1
    /\ Get(settings.view.highlights.exts, nodes[1].ext) = None
    /\ painted.depth > 0

-----------------------------------------------------------------------------
(* Cut / copy: _operation *)

\* the index of the last separator of path p (0 when it has none)
RECURSIVE rfind_sep(_, _)
rfind_sep(p, i) ==
    IF i = 0 THEN 0 ELSE IF p[i] = sep THEN i ELSE rfind_sep(p, i - 1)

\* s without its trailing separators
RECURSIVE rstrip_sep(_)
rstrip_sep(s) ==
    IF s # <<>> /\ s[Len(s)] = sep
    THEN rstrip_sep(SubSeq(s, 1, Len(s) - 1)) ELSE s

\* os.path.basename, os.path.dirname and os.path.join
basename(p) == SubSeq(p, rfind_sep(p, Len(p)) + 1, Len(p))

dirname(p) ==
    LET head == SubSeq(p, 1, rfind_sep(p, Len(p))) IN
    IF rstrip_sep(head) = <<>> THEN head ELSE rstrip_sep(head)

join(a, b) ==
    IF b # <<>> /\ Head(b) = sep THEN b
    ELSE IF a = <<>> \/ a[Len(a)] = sep THEN a \o b
    ELSE a \o <<sep>> \o b

\* fs.cartographer.is_dir
is_dir(node) == "folder" \in node.mode

_find_dest(src, node) ==
    LET name == basename(src)
        parent == IF is_dir(node) THEN node.path ELSE dirname(node.path)
    IN  join(parent, name)

\* os.path.exists against the file system of the run
exists(path) == path \in op.fs

\* {**pre_operations, **new_operations}
merged(pre_operations, new_operations) ==
    [src \in DOMAIN pre_operations \cup DOMAIN new_operations |->
        IF src \in DOMAIN new_operations
        THEN new_operations[src] ELSE pre_operations[src]]

\* the pairs of an ordered dict of pairs, as a set
Pairs(items) == {items[i] : i \in DOMAIN items}

\* lines 57-74, reached when the while loop ends with pre_existing as given:
\* the error and None when a conflict is left, else the question to confirm
after_loop(o, pre_existing) ==
    IF pre_existing # <<>> THEN
        [o EXCEPT !.pc = "done",
                  !.pre_existing = pre_existing,
                  !.written = Append(@, [msg |-> "path(s) already exist",
                                         pairs |-> Pairs(pre_existing)]),
                  !.result = "None"]
    ELSE
        [o EXCEPT !.pc = "confirm",
                  !.pre_existing = pre_existing,
                  !.operations = merged(o.pre_operations, o.new_operations)]

\* the top of the while loop: another prompt while a conflict is left
loop(o, pre_existing) ==
    IF pre_existing # <<>>
    THEN [o EXCEPT !.pc = "input", !.pre_existing = pre_existing]
    ELSE after_loop(o, pre_existing)

\* lines 40-46 and 101-103: up to the first prompt
Begin ==
    /\ op.pc = "start"
    /\ op' =
        IF op.unified # <<>> /\ op.node # None THEN
            LET srcs == {op.unified[i] : i \in DOMAIN op.unified}
                pre_operations == [src \in srcs |-> _find_dest(src, op.node)]
                pre_existing ==
                    SelectSeq([i \in DOMAIN op.unified |->
                                  [source |-> op.unified[i],
                                   dest |-> pre_operations[op.unified[i]]]],
                              LAMBDA sd : exists(sd.dest))
            IN  loop([op EXCEPT
                        !.pre_operations = pre_operations,
                        !.checked = [d \in {pre_operations[src] : src \in srcs}
                                        |-> exists(d)]],
                     pre_existing)
        ELSE
            [op EXCEPT !.pc = "done",
                       !.written = Append(@, [msg |-> "nothing_select",
                                              pairs |-> {}]),
                       !.result = "None"]
    /\ UNCHANGED <<renderArgs, derived, painted>>

\* lines 48-55: one turn of the while loop, the user answering resp
Prompt(resp) ==
    /\ op.pc = "input"
    /\ op.prompts < MaxPrompts
    /\ LET n == Len(op.pre_existing)
           popped == op.pre_existing[n]
           rest == SubSeq(op.pre_existing, 1, n - 1)
           asked == [op EXCEPT !.prompts = @ + 1,
                               !.answers = Append(@, resp)]
       IN  op' =
             IF resp = <<>> THEN after_loop(asked, rest)
             ELSE IF exists(resp) THEN
                 loop([asked EXCEPT !.checked = (resp :> TRUE) @@ @],
                      Append(rest, [source |-> popped.source, dest |-> resp]))
             ELSE
                 loop([asked EXCEPT
                         !.checked = (resp :> FALSE) @@ @,
                         !.new_operations = (popped.source :> resp) @@ @],
                      rest)
    /\ UNCHANGED <<renderArgs, derived, painted>>

\* lines 74-100: the answer to the confirmation and the action, which may
\* raise
Confirm(resp, raises) ==
    /\ op.pc = "confirm"
    /\ op' =
        IF resp = 1 THEN
            IF raises THEN
                [op EXCEPT !.pc = "done", !.called = TRUE,
                           !.written = Append(@, [msg |-> "exception",
                                                  pairs |-> {}]),
                           !.result = "refresh"]
            ELSE
                LET paths == {dirname(q) :
                                q \in DOMAIN op.operations
                                      \cup {op.operations[src] :
                                              src \in DOMAIN op.operations}}
                IN  [op EXCEPT !.pc = "done", !.called = TRUE,
                               !.state = [index |-> op.state.index \cup paths,
                                          selection |-> {}],
                               !.result = "Stage"]
        ELSE [op EXCEPT !.pc = "done", !.result = "None"]
    /\ UNCHANGED <<renderArgs, derived, painted>>

-----------------------------------------------------------------------------
(* SpecOperation: one cut or copy, over any answers of the user *)

Sources == { <<"/", "s", "/", "a">>, <<"/", "s", "/", "b">> }

\* the selection in the orders unify_ancestors may give it
Unified ==
    { <<>> } \cup { <<src>> : src \in Sources }
    \cup { <<s1, s2>> : <<s1, s2>> \in {st \in Sources \X Sources : st[1] # st[2]} }

\* the node under the cursor: none, a folder, or a file in that folder
CursorNodes ==
    { None,
      [path |-> <<"/", "d">>, mode |-> {"folder"}],
      [path |-> <<"/", "d", "/", "f">>, mode |-> {}] }

\* the paths that may exist at the destination
Taken ==
    { <<"/", "d", "/", "a">>, <<"/", "d", "/", "b">>, <<"/", "d", "/", "c">> }

\* what the user may answer to a path-exists prompt: nothing, a path that may
\* exist, or a path that never does
Answers == { <<>> } \cup Taken \cup { <<"/", "d", "/", "x">> }

InitOperation ==
    /\ \E unified \in Unified, node \in CursorNodes, fs \in SUBSET Taken :
         op = [pc |-> "start",
               fs |-> fs,
               state |-> [index |-> {<<"/", "s">>},
                          selection |-> {unified[i] : i \in DOMAIN unified}],
               node |-> node,
               unified |-> unified,
               pre_operations |-> EmptyDict,
               pre_existing |-> <<>>,
               new_operations |-> EmptyDict,
               operations |-> EmptyDict,
               checked |-> EmptyDict,
               prompts |-> 0,
               answers |-> <<>>,
               called |-> FALSE,
               written |-> <<>>,
               result |-> "running"]
    /\ nodes = <<RootNode>>
    /\ settings = Settings(<<"is_folder", "fname">>,
                           [name |-> {}, path |-> {}], TRUE, AsciiIcons,
                           [exts |-> EmptyDict, context |-> NoContext])
    /\ vc = [ignored |-> {}, status |-> EmptyDict]
    /\ filter_pattern = None
    /\ show_hidden = FALSE
    /\ index = {}
    /\ selection = {}
    /\ qf = EmptyDict
    /\ current = None
    /\ derived = None
    /\ painted = None

NextOperation ==
    \/ Begin
    \/ \E resp \in Answers : Prompt(resp)
    \/ \E resp \in 0..2, raises \in BOOLEAN : Confirm(resp, raises)

SpecOperation == InitOperation /\ [][NextOperation]_vars

-----------------------------------------------------------------------------
(* C10 *)

\* C10 as claimed: the action is only ever invoked with a mapping none of
\* whose destinations the last existence check found to exist; and once the
\* user has given an empty answer to a path-exists prompt the action is never
\* invoked, the error is reported and the operation returns None with the
\* state as it was.
C10_NoActionOnExistingDestination ==
    /\ op.called =>
         \A src \in DOMAIN op.operations : ~op.checked[op.operations[src]]
    /\ (\E i \in DOMAIN op.answers : op.answers[i] = <<>>) =>
         /\ ~op.called
         /\ op.pc = "done" =>
              /\ op.result = "None"
              /\ \E i \in DOMAIN op.written :
                   op.written[i].msg = "path(s) already exist"
              /\ op.state.selection = {op.unified[i] : i \in DOMAIN op.unified}

====
